---------------------------- MODULE Spec2Model ----------------------------
(***************************************************************************)
(* A model of the domain component (src/serverless.js): the input          *)
(* normalizer validateInputs, the zone resolver getHostedZoneIdByDomain,   *)
(* the certificate manager getCertificateArnByDomain / validateCertificate,*)
(* the binding orchestrator addDomainToApig / mapDomainToApi /             *)
(* createDomainInApig, the teardown Domain.remove and the deployment       *)
(* Domain.default.                                                         *)
(*                                                                         *)
(* JavaScript strings are sequences of tokens (a token is a character or   *)
(* an indivisible word); the string methods the code uses are operators    *)
(* over these sequences.  Every awaited provider call is one step of the   *)
(* caller; what the provider answers is chosen by the step.                *)
(***************************************************************************)
EXTENDS Integers, Sequences, FiniteSets, TLC

(***************************************************************************)
(* Bounds of the model.                                                    *)
(***************************************************************************)
MaxDomainLen == 3
MaxSubdomains == 1
MaxZones == 2
MaxCalls == 2

(***************************************************************************)
(* JavaScript values and string methods.                                   *)
(***************************************************************************)
Undefined == [t |-> "undefined", v |-> <<>>]
String(s) == [t |-> "string", v |-> s]
Number(n) == [t |-> "number", v |-> n]
Array(a) == [t |-> "array", v |-> a]

typeof(x) == x.t

\* x || y on values: "" and undefined are falsy
OrElse(x, y) == IF x.t = "undefined" \/ (x.t = "string" /\ x.v = <<>>) THEN y ELSE x

\* x === y: values of different types differ; an array is an object and is
\* identical only to itself, never to a value built elsewhere
StrictEquals(x, y) == x.t = y.t /\ x.t # "array" /\ x.v = y.v

\* p occurs in s at position i
OccursAt(s, p, i) ==
  /\ i >= 1
  /\ i + Len(p) - 1 <= Len(s)
  /\ \A k \in 1..Len(p) : s[i + k - 1] = p[k]

\* s.includes(p)
includes(s, p) == \E i \in 1..(Len(s) + 1) : OccursAt(s, p, i)

\* s.startsWith(p)
startsWith(s, p) == OccursAt(s, p, 1)

\* s.indexOf(p), 0 when p does not occur (positions count from 1)
indexOf(s, p) ==
  IF includes(s, p)
  THEN CHOOSE i \in 1..(Len(s) + 1) :
         OccursAt(s, p, i) /\ \A j \in 1..(i - 1) : ~OccursAt(s, p, j)
  ELSE 0

\* s.replace(p, r) with a string pattern: the first occurrence only
replace(s, p, r) ==
  LET i == indexOf(s, p)
  IN IF i = 0 THEN s
     ELSE SubSeq(s, 1, i - 1) \o r \o SubSeq(s, i + Len(p), Len(s))

\* s.split(sep) for a one-token separator
RECURSIVE split(_, _)
split(s, sep) ==
  LET i == indexOf(s, <<sep>>)
  IN IF i = 0 THEN <<s>>
     ELSE <<SubSeq(s, 1, i - 1)>> \o split(SubSeq(s, i + 1, Len(s)), sep)

\* sequences over S of length at most n
SeqUpTo(S, n) == UNION {[1..k -> S] : k \in 0..n}

(***************************************************************************)
(* String constants of the program.                                        *)
(***************************************************************************)
Dot == "."
UsEast1 == <<"us-east-1">>
Https == <<"https://">>
ExecuteApi == <<"execute-api">>
Cloudfront == <<"cloudfront">>
HostedZonePrefix == <<"/hostedzone/">>
Www == <<"w", "w", "w">>
WwwDot == <<"w", "w", "w", ".">>
InvalidDomain == "Invalid domain specified."

(***************************************************************************)
(* Input Normalizer: validateInputs.                                       *)
(***************************************************************************)
Return(x) == [threw |-> FALSE, message |-> "", value |-> x]
Throw(m) == [threw |-> TRUE, message |-> m, value |-> <<>>]

\* the descriptor pushed for one declared subdomain (lines 158-177)
SubdomainDescriptor(part, componentOutputs, domain) ==
  LET name == part \o <<Dot>> \o domain
      url == replace(componentOutputs.url, Https, <<>>)
      isApig == includes(componentOutputs.url, ExecuteApi)
      isCf == includes(componentOutputs.url, Cloudfront)
  IN [name |-> name,
      type |-> IF isCf THEN "awsCloudFront"
               ELSE IF isApig THEN "awsApiGateway" ELSE "undefined",
      url |-> IF isCf \/ isApig THEN String(url) ELSE Undefined,
      apiId |-> IF isApig THEN String(componentOutputs.id) ELSE Undefined,
      distributionId |-> IF isCf THEN String(componentOutputs.id) ELSE Undefined]

\* the guard of line 151
DomainRejected(domain) ==
  typeof(domain) # "string" \/ ~StrictEquals(Array(split(domain.v, Dot)), Number(2))

validateInputs(in) ==
  LET region == OrElse(in.region, String(UsEast1))
  IN IF DomainRejected(in.domain)
     THEN Throw(InvalidDomain)
     ELSE Return([region |-> region,
                  privateZone |-> FALSE,
                  domain |-> in.domain,
                  subdomains |->
                    [i \in 1..Len(in.subdomains) |->
                       SubdomainDescriptor(in.subdomains[i].part,
                                           in.subdomains[i].outputs,
                                           in.domain.v)]])

(***************************************************************************)
(* Zone Resolver: getHostedZoneIdByDomain.                                 *)
(***************************************************************************)
\* Array.prototype.find with the predicate of line 190: the first zone whose
\* Name includes the domain, 0 when there is none
FindZoneByEquality(zones, domain) ==
  IF \E i \in 1..Len(zones) : zones[i].Name = domain
  THEN CHOOSE i \in 1..Len(zones) :
         zones[i].Name = domain /\ \A j \in 1..(i - 1) : zones[j].Name # domain
  ELSE 0

FindZone(zones, domain) ==
  IF \E i \in 1..Len(zones) : includes(zones[i].Name, domain)
  THEN CHOOSE i \in 1..Len(zones) :
         /\ includes(zones[i].Name, domain)
         /\ \A j \in 1..(i - 1) : ~includes(zones[j].Name, domain)
  ELSE 0

ZoneNotFound == "Domain was not found in your AWS account."

getHostedZoneIdByDomain(zones, domain) ==
  LET i == FindZone(zones, domain)
  IN IF i = 0 THEN Throw(ZoneNotFound)
     ELSE Return(replace(zones[i].Id, HostedZonePrefix, <<>>))

(***************************************************************************)
(* Inputs the operations are exercised on.                                 *)
(***************************************************************************)
DomainChars == {"a", Dot}
DomainValues ==
  {Undefined, Number(2)} \cup {String(s) : s \in SeqUpTo(DomainChars, MaxDomainLen)}
RegionValues == {Undefined, String(<<>>), String(<<"eu-west-1">>)}
BackendUrls ==
  { Https \o <<"abc", Dot>> \o ExecuteApi \o <<Dot, "amazonaws.com">>,
    Https \o <<"d1", Dot>> \o Cloudfront \o <<Dot, "net">>,
    Https \o <<"site", Dot, "s3.amazonaws.com">>,
    Https \o ExecuteApi \o <<Dot>> \o Cloudfront \o <<Dot, "net">> }
DeclaredSubdomains ==
  {[part |-> p, outputs |-> [url |-> u, id |-> <<"id1">>]] :
     p \in {<<"a", "p", "i">>, Www}, u \in BackendUrls}
RawInputs ==
  [region : RegionValues, domain : DomainValues,
   subdomains : SeqUpTo(DeclaredSubdomains, MaxSubdomains)]

ExampleCom == <<"e", "x", Dot, "c">>
ZoneNames ==
  { ExampleCom \o <<Dot>>, <<"s", Dot>> \o ExampleCom \o <<Dot>>, <<"o", Dot, "c", Dot>> }
ZoneIds == { HostedZonePrefix \o <<"Z1">>, HostedZonePrefix \o <<"Z2">> }
HostedZone == [Id : ZoneIds, Name : ZoneNames]
ZoneLists == SeqUpTo(HostedZone, MaxZones)
ResolveDomains == { ExampleCom, <<"o", Dot, "c">>, <<"x", Dot, "y">> }


(***************************************************************************)
(* State.                                                                  *)
(***************************************************************************)
VARIABLES
  op,            \* the operation this behaviour exercises
  \* validateInputs
  inputs,        \* the raw inputs
  normalized,    \* what validateInputs returned or threw, <<>> before the call
  outputs,       \* what Domain.default returned or threw, <<>> before it ends
  \* getHostedZoneIdByDomain
  hostedZones,   \* route53.listHostedZonesByName: the zones of the account
  zoneDomain,    \* inputs.domain
  zoneResults,   \* the results of the calls so far
  \* getCertificateArnByDomain and validateCertificate
  certificates,  \* ACM: the certificates of the account, the ARN of one is its place
  zoneRecords,   \* Route53: the names of the records of the hosted zone
  certPc,        \* where getCertificateArnByDomain stands
  certificateArn,
  certificate,   \* the description read at line 336
  validationResourceRecord,
  readinessCheckCount,
  statusCheckCount,
  existingRecords,
  certResult,    \* what getCertificateArnByDomain returned or threw
  upsertWrites,  \* route53.changeResourceRecordSets calls made for validation
  certRequests,  \* acm.requestCertificate calls made
  describeCalls, \* acm.describeCertificate calls made by checkReadiness and checkStatus
  \* API Gateway and the alias records of the hosted zone
  apigDomains,   \* the custom domain names that exist
  basePathMappings, \* the custom domain names mapped to their API
  aliasRecords,  \* the names that have an alias record in the hosted zone
  \* addDomainToApig
  bindPc,        \* where addDomainToApig stands
  subdomain,     \* subdomain.name
  createClients, \* the clients argument of the running createDomainInApig
  mapAnswer,     \* how the last createBasePathMapping call settled
  bindError,     \* the error addDomainToApig threw, <<>> when none
  binds,         \* invocations of addDomainToApig so far
  createDomainCalls, \* apig.createDomainName calls made
  dnsWrites,     \* route53.changeResourceRecordSets calls made for aliases
  createRes,     \* res, the answer of createDomainName at line 379
  sentDnsRecord, \* the record set of the last alias UPSERT sent to route53
  \* Domain.remove
  state,         \* this.state, as persisted
  cfDistributions, \* CloudFront: the domains a distribution serves
  removePc,      \* where remove stands
  removeIndex,   \* the place in this.state.subdomains of the running iteration
  calls,         \* the helper calls the running remove has made, in order
  removeResult,  \* what remove returned or threw, <<>> while it runs
  removes        \* invocations of remove so far

normVars == <<inputs, normalized, outputs>>
zoneVars == <<hostedZones, zoneDomain, zoneResults>>
acmVars == <<certificates, zoneRecords>>
certLocals ==
  <<certPc, certificateArn, certificate, validationResourceRecord,
    readinessCheckCount, statusCheckCount, existingRecords, certResult,
    upsertWrites, certRequests, describeCalls>>
certVars == <<acmVars, certLocals>>
gwVars == <<apigDomains, basePathMappings, aliasRecords>>
bindLocals ==
  <<bindPc, subdomain, createClients, mapAnswer, bindError, binds,
    createDomainCalls, dnsWrites, createRes, sentDnsRecord>>
removeLocals == <<removePc, removeIndex, calls, removeResult, removes>>
removeVars == <<state, cfDistributions, removeLocals>>
vars == <<op, normVars, zoneVars, certVars, gwVars, bindLocals, removeVars>>
notNorm == <<zoneVars, certVars, gwVars, bindLocals, removeVars>>
notZone == <<normVars, certVars, gwVars, bindLocals, removeVars>>
notCert == <<normVars, zoneVars, gwVars, bindLocals, removeVars>>
notBind == <<normVars, zoneVars, certVars, removeVars>>
notRemove == <<normVars, zoneVars, certVars, bindLocals>>

(***************************************************************************)
(* validateInputs and getHostedZoneIdByDomain, applied.                    *)
(***************************************************************************)
CallValidateInputs ==
  /\ op = "validateInputs"
  /\ normalized = <<>>
  /\ normalized' = validateInputs(inputs)
  /\ UNCHANGED <<op, inputs, outputs, notNorm>>

CallGetHostedZoneId ==
  /\ op = "getHostedZoneIdByDomain"
  /\ Len(zoneResults) < MaxCalls
  /\ zoneResults' = Append(zoneResults, getHostedZoneIdByDomain(hostedZones, zoneDomain))
  /\ UNCHANGED <<op, hostedZones, zoneDomain, notZone>>

(***************************************************************************)
(* The SDK clients: getClients returns an object holding one client per    *)
(* service; a client has no member named after a service.                  *)
(***************************************************************************)
Clients == [kind |-> "clients"]
Member(c, name) == IF c.kind = "clients" THEN [kind |-> name] ELSE [kind |-> "undefined"]
TypeError == "TypeError: Cannot read property of undefined"

(***************************************************************************)
(* Certificate Manager.                                                    *)
(***************************************************************************)
MaxCerts == 2
MaxRecordName == 3

\* record names, by their place in the order route53 lists them in
RecordNames == 1..MaxRecordName
ValidationRecordName == 2
MaxItems == 10
ReadinessChecks == 16
StatusChecks == 16

CertificateDomain == ExampleCom
Wildcard(domain) == <<"*", Dot>> \o domain
ResourceRecord == [t |-> "object", v |-> [Name |-> ValidationRecordName, Type |-> "CNAME"]]
NotExposed(domain) ==
  << [DomainName |-> domain, ResourceRecord |-> Undefined],
     [DomainName |-> Wildcard(domain), ResourceRecord |-> Undefined] >>
Exposed(domain) ==
  << [DomainName |-> domain, ResourceRecord |-> ResourceRecord],
     [DomainName |-> Wildcard(domain), ResourceRecord |-> ResourceRecord] >>
CertificateStatuses == {"PENDING_VALIDATION", "ISSUED", "FAILED"}
\* the certificates an account may hold: for the domain, in any status; for
\* another name (never picked by line 322), an issued one
Certificates ==
  {[DomainName |-> CertificateDomain, Status |-> "PENDING_VALIDATION",
    DomainValidationOptions |-> o] :
     o \in {NotExposed(CertificateDomain), Exposed(CertificateDomain)}}
  \cup
  {[DomainName |-> CertificateDomain, Status |-> s,
    DomainValidationOptions |-> Exposed(CertificateDomain)] :
     s \in CertificateStatuses \ {"PENDING_VALIDATION"}}
  \cup
  {[DomainName |-> Wildcard(CertificateDomain), Status |-> "ISSUED",
    DomainValidationOptions |-> Exposed(Wildcard(CertificateDomain))]}

CertificateNotReady == "Your newly created AWS ACM Certificate is taking a while to initialize."
CertificateNotValidated ==
  "Your newly validated AWS ACM Certificate is taking a while to register as valid."

\* lines 321-327: the ARN of the first summary whose DomainName is the domain, 0 for null
FindCertificate(list, domain) ==
  IF \E i \in 1..Len(list) : list[i].DomainName = domain
  THEN CHOOSE i \in 1..Len(list) :
         list[i].DomainName = domain /\ \A j \in 1..(i - 1) : list[j].DomainName # domain
  ELSE 0

\* createCertificate(clients, inputs), lines 202-214: it calls
\* clients.acm.requestCertificate
createCertificate(clients, list) ==
  IF Member(clients, "acm").kind = "undefined"
  THEN Throw(TypeError)
  ELSE Return(Len(list) + 1)

\* the clients argument of the call at line 332
CreateCertificateClients == Member(Clients, "acm")

\* line 338
NeedsValidationAlways(status) == TRUE
NeedsValidation(status) == status = "PENDING_VALIDATION"

\* lines 243-247: forEach over the options, the last match is kept
RECURSIVE RootValidationRecord(_, _, _)
RootValidationRecord(options, domain, previous) ==
  IF options = <<>> THEN previous
  ELSE RootValidationRecord(Tail(options), domain,
         IF domain = Head(options).DomainName
         THEN Head(options).ResourceRecord ELSE previous)

\* route53.listResourceRecordSets with StartRecordName and MaxItems: the
\* first maxItems records of the zone from start on, in the zone's order
listResourceRecordSets(records, start, maxItems) ==
  {n \in records : n >= start /\ Cardinality({m \in records : m >= start /\ m < n}) < maxItems}

\* line 268
NoExistingRecords(existing) == existing = {}

ListCertificates ==
  /\ op = "getCertificateArnByDomain"
  /\ certPc = "list"
  /\ LET arn == FindCertificate(certificates, CertificateDomain)
         created == createCertificate(CreateCertificateClients, certificates)
     IN IF arn # 0
        THEN /\ certificateArn' = arn
             /\ certPc' = "describe"
             /\ UNCHANGED <<certificates, certResult, certRequests>>
        ELSE IF created.threw
        THEN /\ certPc' = "done"
             /\ certResult' = created
             /\ UNCHANGED <<certificates, certificateArn, certRequests>>
        ELSE /\ certificates' =
                  Append(certificates,
                         [DomainName |-> CertificateDomain,
                          Status |-> "PENDING_VALIDATION",
                          DomainValidationOptions |-> NotExposed(CertificateDomain)])
             /\ certRequests' = certRequests + 1
             /\ certificateArn' = created.value
             /\ certPc' = "describe"
             /\ UNCHANGED certResult
  /\ UNCHANGED <<op, notCert, zoneRecords, certificate,
                 validationResourceRecord, readinessCheckCount, statusCheckCount,
                 existingRecords, upsertWrites, describeCalls>>

DescribeCertificate ==
  /\ op = "getCertificateArnByDomain"
  /\ certPc = "describe"
  /\ certificate' = certificates[certificateArn]
  /\ IF NeedsValidation(certificate'.Status)
     THEN certPc' = "checkReadiness" /\ UNCHANGED certResult
     ELSE certPc' = "done" /\ certResult' = Return(certificateArn)
  /\ UNCHANGED <<op, notCert, acmVars, certificateArn,
                 validationResourceRecord, readinessCheckCount, statusCheckCount,
                 existingRecords, upsertWrites, certRequests, describeCalls>>

\* one call of checkReadiness, lines 233-254
CheckReadiness ==
  /\ op = "getCertificateArnByDomain"
  /\ certPc = "checkReadiness"
  /\ IF readinessCheckCount < 1
     THEN /\ certPc' = "done"
          /\ certResult' = Throw(CertificateNotReady)
          /\ UNCHANGED <<validationResourceRecord, readinessCheckCount, describeCalls>>
     ELSE LET cert == certificates[certificateArn]
              found == RootValidationRecord(cert.DomainValidationOptions,
                                            CertificateDomain, validationResourceRecord)
          IN /\ describeCalls' = [describeCalls EXCEPT !.readiness = @ + 1]
             /\ validationResourceRecord' = found
             /\ IF found.t = "undefined"
                THEN /\ readinessCheckCount' = readinessCheckCount - 1
                     /\ UNCHANGED certPc
                ELSE /\ certPc' = "listRecords"
                     /\ UNCHANGED readinessCheckCount
             /\ UNCHANGED certResult
  /\ UNCHANGED <<op, notCert, acmVars, certificateArn, certificate,
                 statusCheckCount, existingRecords, upsertWrites, certRequests>>

\* lines 258-268
ListRecordSets ==
  /\ op = "getCertificateArnByDomain"
  /\ certPc = "listRecords"
  /\ existingRecords' =
       listResourceRecordSets(zoneRecords, validationResourceRecord.v.Name, MaxItems)
  /\ certPc' = IF NoExistingRecords(existingRecords')
               THEN "upsert" ELSE "checkStatus"
  /\ UNCHANGED <<op, notCert, acmVars, certificateArn, certificate,
                 validationResourceRecord, readinessCheckCount, statusCheckCount,
                 certResult, upsertWrites, certRequests, describeCalls>>

\* lines 271-291
UpsertValidationRecord ==
  /\ op = "getCertificateArnByDomain"
  /\ certPc = "upsert"
  /\ zoneRecords' = zoneRecords \cup {validationResourceRecord.v.Name}
  /\ upsertWrites' = upsertWrites + 1
  /\ certPc' = "checkStatus"
  /\ UNCHANGED <<op, notCert, certificates, certificateArn, certificate,
                 validationResourceRecord, readinessCheckCount, statusCheckCount,
                 existingRecords, certResult, certRequests, describeCalls>>

\* one call of checkStatus, lines 300-314; when it returns, validateCertificate
\* and getCertificateArnByDomain return (line 347)
CheckStatusPollingOn ==
  /\ op = "getCertificateArnByDomain"
  /\ certPc = "checkStatus"
  /\ IF statusCheckCount < 1
     THEN /\ certPc' = "done"
          /\ certResult' = Throw(CertificateNotValidated)
          /\ UNCHANGED <<statusCheckCount, describeCalls>>
     ELSE /\ describeCalls' = [describeCalls EXCEPT !.status = @ + 1]
          /\ statusCheckCount' = statusCheckCount - 1
          /\ UNCHANGED <<certPc, certResult>>
  /\ UNCHANGED <<op, notCert, acmVars, certificateArn, certificate,
                 validationResourceRecord, readinessCheckCount, existingRecords,
                 upsertWrites, certRequests>>

CheckStatus ==
  /\ op = "getCertificateArnByDomain"
  /\ certPc = "checkStatus"
  /\ IF statusCheckCount < 1
     THEN /\ certPc' = "done"
          /\ certResult' = Throw(CertificateNotValidated)
          /\ UNCHANGED <<statusCheckCount, describeCalls>>
     ELSE /\ describeCalls' = [describeCalls EXCEPT !.status = @ + 1]
          /\ IF certificates[certificateArn].Status # "ISSUED"
             THEN /\ statusCheckCount' = statusCheckCount - 1
                  /\ UNCHANGED <<certPc, certResult>>
             ELSE /\ certPc' = "done"
                  /\ certResult' = Return(certificateArn)
                  /\ UNCHANGED statusCheckCount
  /\ UNCHANGED <<op, notCert, acmVars, certificateArn, certificate,
                 validationResourceRecord, readinessCheckCount, existingRecords,
                 upsertWrites, certRequests>>

\* ACM, on its own, while the call runs: it exposes the validation record of
\* the pending certificate.  Only the certificate the call has picked is
\* followed: after line 323 the code reads no other.
AcmExposesValidationRecord ==
  /\ op = "getCertificateArnByDomain"
  /\ certPc # "done"
  /\ \E i \in {certificateArn} \cap (1..Len(certificates)) :
       /\ certificates[i].Status = "PENDING_VALIDATION"
       /\ certificates[i].DomainValidationOptions = NotExposed(CertificateDomain)
       /\ certificates' =
            [certificates EXCEPT ![i].DomainValidationOptions = Exposed(CertificateDomain)]
  /\ UNCHANGED <<op, notCert, zoneRecords, certLocals>>

\* ACM, on its own, while the call runs: it issues the pending certificate
\* once its validation record is in the zone
AcmIssuesCertificate ==
  /\ op = "getCertificateArnByDomain"
  /\ certPc # "done"
  /\ \E i \in {certificateArn} \cap (1..Len(certificates)) :
       /\ certificates[i].Status = "PENDING_VALIDATION"
       /\ certificates[i].DomainValidationOptions = Exposed(CertificateDomain)
       /\ ValidationRecordName \in zoneRecords
       /\ certificates' = [certificates EXCEPT ![i].Status = "ISSUED"]
  /\ UNCHANGED <<op, notCert, zoneRecords, certLocals>>

(***************************************************************************)
(* Binding Orchestrator: addDomainToApig, mapDomainToApi,                  *)
(* createDomainInApig.                                                     *)
(***************************************************************************)
MaxBinds == 3

ApiName == <<"a", "p", "i", Dot>> \o ExampleCom
AppName == <<"a", "p", "p", Dot>> \o ExampleCom
GatewaySubdomains == {ApiName, AppName}

InvalidIdentifier == "Invalid domain name identifier specified"
BasePathExists == "Base path already exists for this domain name"
TooManyRequestsCode == "TooManyRequestsException"

\* how a provider call settles
Success == [ok |-> TRUE, code |-> "", message |-> ""]
TooManyRequests == [ok |-> FALSE, code |-> TooManyRequestsCode, message |-> "Too Many Requests"]
NotFound == [ok |-> FALSE, code |-> "NotFoundException", message |-> InvalidIdentifier]
Conflict == [ok |-> FALSE, code |-> "ConflictException", message |-> BasePathExists]
ServiceFailure == [ok |-> FALSE, code |-> "ServiceUnavailableException", message |-> "Service Unavailable"]
ThrownTypeError == [ok |-> FALSE, code |-> "", message |-> TypeError]
NoAnswer == [ok |-> FALSE, code |-> "", message |-> ""]

\* apig.createBasePathMapping(domainName, restApiId), line 359
createBasePathMapping(domains, mappings, d) ==
  {TooManyRequests, ServiceFailure}
    \cup (IF d \notin domains THEN {NotFound}
          ELSE IF d \in mappings THEN {Conflict} ELSE {Success})

\* apig.createDomainName(domainName, certificateArn), line 379
createDomainName(domains, d) ==
  {TooManyRequests, ServiceFailure} \cup (IF d \in domains THEN {} ELSE {Success})

\* what a successful createDomainName resolves to: the edge distribution
\* API Gateway made for the custom domain
DistributionDomainNames ==
  { <<"d1", Dot>> \o Cloudfront \o <<Dot, "net">>, <<"d2", Dot>> \o Cloudfront \o <<Dot, "net">> }
DomainNameResponses ==
  [distributionHostedZoneId : {<<"Z2FDTNDATAQYW2">>},
   distributionDomainName : DistributionDomainNames]

\* route53.changeResourceRecordSets(UPSERT alias), line 400
changeResourceRecordSets == {Success, ServiceFailure}

\* the record set of lines 380-398
dnsRecordOfDomain(domain, res) ==
  [Name |-> domain, Type |-> "A",
   AliasTarget |-> [HostedZoneId |-> res.distributionHostedZoneId,
                    DNSName |-> domain]]

dnsRecord(domain, res) ==
  [Name |-> domain, Type |-> "A",
   AliasTarget |-> [HostedZoneId |-> res.distributionHostedZoneId,
                    DNSName |-> res.distributionDomainName]]

\* line 359 returns the promise of the call without awaiting it, so the catch
\* of lines 360-366 sees no rejection of it
MapAwaitsCall == FALSE
\* line 400, the same for the catch of lines 401-407
DnsAwaitsCall == FALSE

\* lines 361 and 402
IsRateLimited(e) == e.code = TooManyRequestsCode

\* the catch of addDomainToApig, lines 414-430: where the answer to the
\* mapping attempt leads
AfterMapNoSkip(e) ==
  IF e.ok THEN "Bound"
  ELSE IF e.message = InvalidIdentifier THEN "CreateDomain"
  ELSE "Failed"

AfterMap(e) ==
  IF e.ok THEN "Bound"
  ELSE IF e.message = InvalidIdentifier THEN "CreateDomain"
  ELSE IF e.message = BasePathExists THEN "Bound"
  ELSE "Failed"

\* addDomainToApig is invoked
BindStart ==
  /\ op = "addDomainToApig"
  /\ bindPc \in {"idle", "Bound", "Failed"}
  /\ binds < MaxBinds
  /\ subdomain' \in GatewaySubdomains
  /\ bindPc' = "MapAttempt"
  /\ createClients' = Clients
  /\ mapAnswer' = NoAnswer
  /\ bindError' = <<>>
  /\ binds' = binds + 1
  /\ createRes' = <<>>
  /\ UNCHANGED <<op, notBind, gwVars, createDomainCalls, dnsWrites, sentDnsRecord>>

\* lines 411-431 with mapDomainToApi, lines 350-367
MapAttempt ==
  /\ op = "addDomainToApig"
  /\ bindPc = "MapAttempt"
  /\ \E e \in createBasePathMapping(apigDomains, basePathMappings, subdomain) :
       /\ mapAnswer' = e
       /\ basePathMappings' =
            IF e.ok THEN basePathMappings \cup {subdomain} ELSE basePathMappings
       /\ IF MapAwaitsCall /\ IsRateLimited(e)
          THEN UNCHANGED <<bindPc, bindError>>
          ELSE /\ bindPc' = AfterMap(e)
               /\ bindError' = IF AfterMap(e) = "Failed" THEN e ELSE <<>>
  /\ createClients' = Clients
  /\ UNCHANGED <<op, notBind, apigDomains, aliasRecords, subdomain, binds,
                 createDomainCalls, dnsWrites, createRes, sentDnsRecord>>

\* createDomainInApig up to the answer of createDomainName, lines 369-379 and
\* the catch of lines 401-407
CreateDomain ==
  /\ op = "addDomainToApig"
  /\ bindPc = "CreateDomain"
  /\ IF Member(createClients, "apig").kind = "undefined"
     THEN /\ bindPc' = "Failed"
          /\ bindError' = ThrownTypeError
          /\ UNCHANGED <<apigDomains, createClients, createDomainCalls, createRes>>
     ELSE \E e \in createDomainName(apigDomains, subdomain) :
            /\ createDomainCalls' = createDomainCalls + 1
            /\ apigDomains' = IF e.ok THEN apigDomains \cup {subdomain} ELSE apigDomains
            /\ IF e.ok
               THEN /\ bindPc' = "DnsWrite"
                    /\ createRes' \in DomainNameResponses
                    /\ UNCHANGED <<bindError, createClients>>
               ELSE IF IsRateLimited(e)
               THEN /\ createClients' = Member(createClients, "apig")
                    /\ UNCHANGED <<bindPc, bindError, createRes>>
               ELSE /\ bindPc' = "Failed"
                    /\ bindError' = e
                    /\ UNCHANGED <<createClients, createRes>>
  /\ UNCHANGED <<op, notBind, basePathMappings, aliasRecords, subdomain, mapAnswer,
                 binds, dnsWrites, sentDnsRecord>>

\* the alias upsert of createDomainInApig, lines 380-400, and the retry of
\* addDomainToApig, line 423
DnsWrite ==
  /\ op = "addDomainToApig"
  /\ bindPc = "DnsWrite"
  /\ \E e \in changeResourceRecordSets :
       /\ dnsWrites' = dnsWrites + 1
       /\ sentDnsRecord' = dnsRecord(subdomain, createRes)
       /\ aliasRecords' = IF e.ok THEN aliasRecords \cup {subdomain} ELSE aliasRecords
       /\ IF e.ok
          THEN bindPc' = "MapAttempt" /\ UNCHANGED bindError
          ELSE IF DnsAwaitsCall /\ IsRateLimited(e)
          THEN bindPc' = "CreateDomain" /\ UNCHANGED bindError
          ELSE bindPc' = "Failed" /\ bindError' = e
  /\ UNCHANGED <<op, notBind, apigDomains, basePathMappings, subdomain, createClients,
                 mapAnswer, binds, createDomainCalls, createRes>>

(***************************************************************************)
(* Teardown Orchestrator: Domain.remove.  The helpers it calls             *)
(* (getDomainHostedZoneId, getCloudFrontDistributionByDomain,              *)
(* removeCloudFrontDomainDnsRecords, getApiDomainName, removeApiDomain,    *)
(* removeApiDomainDnsRecords, removeDomainFromCloudFrontDistribution) are  *)
(* not part of the source file: each is a provider call that returns what  *)
(* the teardown design says it returns, or throws.                         *)
(***************************************************************************)
MaxRecorded == 2
MaxRemoves == 2

WwwName == WwwDot \o ExampleCom
CdnName == <<"c", "d", "n", Dot>> \o ExampleCom
CdnUrl == Https \o <<"d1", Dot>> \o Cloudfront \o <<Dot, "net">>

EmptyState == [domain |-> Undefined, subdomains |-> <<>>]
RecordedSubdomains ==
  { [type |-> "awsApiGateway", domain |-> ApiName, url |-> <<>>],
    [type |-> "awsS3Website", domain |-> WwwName, url |-> <<>>],
    [type |-> "awsCloudFront", domain |-> CdnName, url |-> CdnUrl],
    [type |-> "undefined", domain |-> AppName, url |-> <<>>] }
PersistedStates ==
  {EmptyState} \cup
  {[domain |-> String(ExampleCom), subdomains |-> s] :
     s \in SeqUpTo(RecordedSubdomains, MaxRecorded)}

HelperFailure == "the helper threw"

\* how a lookup helper answers
Lookups(present) == {IF present THEN "found" ELSE "notFound", "error"}
\* how a removal helper answers
Removals == {"ok", "error"}

\* a helper call, with how it answered
Call(fn, d, a) == [fn |-> fn, domain |-> d, answer |-> a]

\* line 63
StateIsEmpty(s) == s.domain.t = "undefined" \/ (s.domain.t = "string" /\ s.domain.v = <<>>)

\* the branches of lines 81, 105 and 124: the first helper of an iteration
EntryPc(type) ==
  IF type = "awsS3Website" THEN "websiteLookup"
  ELSE IF type = "awsApiGateway" THEN "apigLookup"
  ELSE IF type = "awsCloudFront" THEN "cfRemoveAlias"
  ELSE "none"

\* the first iteration from j on that calls a helper: an iteration over a
\* subdomain of another type calls none
RECURSIVE NextIteration(_, _)
NextIteration(subdomains, j) ==
  IF j > Len(subdomains) \/ EntryPc(subdomains[j].type) # "none" THEN j
  ELSE NextIteration(subdomains, j + 1)

\* the loop moves on to iteration j; past the last one remove empties the
\* state, saves it and returns (lines 137-139)
Continue(j) ==
  LET n == NextIteration(state.subdomains, j)
  IN IF n > Len(state.subdomains)
     THEN /\ state' = EmptyState
          /\ removePc' = "done"
          /\ removeResult' = Return(<<>>)
          /\ UNCHANGED removeIndex
     ELSE /\ removePc' = EntryPc(state.subdomains[n].type)
          /\ removeIndex' = n
          /\ UNCHANGED <<state, removeResult>>

\* a helper threw: remove rejects with its error
FailClearingState ==
  /\ removePc' = "failed"
  /\ removeResult' = Throw(HelperFailure)
  /\ state' = EmptyState
  /\ UNCHANGED removeIndex

Fail ==
  /\ removePc' = "failed"
  /\ removeResult' = Throw(HelperFailure)
  /\ UNCHANGED <<state, removeIndex>>

\* the same iteration goes on with its next helper
Then(pc) ==
  /\ removePc' = pc
  /\ UNCHANGED <<state, removeIndex, removeResult>>

Recorded == state.subdomains[removeIndex]

\* lines 60-65: remove is invoked
RemoveStartAlwaysLooksUp ==
  /\ op = "remove"
  /\ removePc \in {"idle", "done", "failed"}
  /\ removes < MaxRemoves
  /\ removes' = removes + 1
  /\ calls' = <<>>
  /\ removeResult' = <<>>
  /\ removePc' = "zoneLookup"
  /\ UNCHANGED <<op, notRemove, gwVars, state, cfDistributions, removeIndex>>

RemoveStart ==
  /\ op = "remove"
  /\ removePc \in {"idle", "done", "failed"}
  /\ removes < MaxRemoves
  /\ removes' = removes + 1
  /\ calls' = <<>>
  /\ IF StateIsEmpty(state)
     THEN removePc' = "done" /\ removeResult' = Return(<<>>)
     ELSE removePc' = "zoneLookup" /\ removeResult' = <<>>
  /\ UNCHANGED <<op, notRemove, gwVars, state, cfDistributions, removeIndex>>

\* lines 73-79
ZoneLookup ==
  /\ op = "remove"
  /\ removePc = "zoneLookup"
  /\ \E a \in Lookups(TRUE) :
       calls' = Append(calls, Call("getDomainHostedZoneId", state.domain.v, a)) /\
       IF a = "found" THEN Continue(1) ELSE Fail
  /\ UNCHANGED <<op, notRemove, gwVars, cfDistributions, removes>>

\* lines 85-87
WebsiteLookup ==
  /\ op = "remove"
  /\ removePc = "websiteLookup"
  /\ \E a \in Lookups(Recorded.domain \in cfDistributions) :
       calls' = Append(calls, Call("getCloudFrontDistributionByDomain", Recorded.domain, a)) /\
       IF a = "found" THEN Then("websiteDns")
       ELSE IF a = "notFound" THEN Continue(removeIndex + 1)
       ELSE Fail
  /\ UNCHANGED <<op, notRemove, gwVars, cfDistributions, removes>>

\* lines 89-96
WebsiteDnsSkippingBare ==
  /\ op = "remove"
  /\ removePc = "websiteDns"
  /\ \E a \in Removals :
       calls' = Append(calls, Call("removeCloudFrontDomainDnsRecords", Recorded.domain, a)) /\
       IF a = "ok"
       THEN /\ aliasRecords' = aliasRecords \ {Recorded.domain}
            /\ Continue(removeIndex + 1)
       ELSE Fail /\ UNCHANGED aliasRecords
  /\ UNCHANGED <<op, notRemove, apigDomains, basePathMappings, cfDistributions, removes>>

WebsiteDns ==
  /\ op = "remove"
  /\ removePc = "websiteDns"
  /\ \E a \in Removals :
       calls' = Append(calls, Call("removeCloudFrontDomainDnsRecords", Recorded.domain, a)) /\
       IF a = "ok"
       THEN /\ aliasRecords' = aliasRecords \ {Recorded.domain}
            /\ IF startsWith(Recorded.domain, Www)
               THEN Then("websiteBareDns")
               ELSE Continue(removeIndex + 1)
       ELSE Fail /\ UNCHANGED aliasRecords
  /\ UNCHANGED <<op, notRemove, apigDomains, basePathMappings, cfDistributions, removes>>

\* lines 97-102
WebsiteBareDns ==
  /\ op = "remove"
  /\ removePc = "websiteBareDns"
  /\ LET bare == replace(Recorded.domain, WwwDot, <<>>)
     IN \E a \in Removals :
          calls' = Append(calls, Call("removeCloudFrontDomainDnsRecords", bare, a)) /\
          IF a = "ok"
          THEN aliasRecords' = aliasRecords \ {bare} /\ Continue(removeIndex + 1)
          ELSE Fail /\ UNCHANGED aliasRecords
  /\ UNCHANGED <<op, notRemove, apigDomains, basePathMappings, cfDistributions, removes>>

\* lines 109-111
ApigLookupIgnoringAnswer ==
  /\ op = "remove"
  /\ removePc = "apigLookup"
  /\ \E a \in Lookups(Recorded.domain \in apigDomains) :
       calls' = Append(calls, Call("getApiDomainName", Recorded.domain, a)) /\
       IF a = "error" THEN Fail ELSE Then("apigDelete")
  /\ UNCHANGED <<op, notRemove, gwVars, cfDistributions, removes>>

ApigLookup ==
  /\ op = "remove"
  /\ removePc = "apigLookup"
  /\ \E a \in Lookups(Recorded.domain \in apigDomains) :
       calls' = Append(calls, Call("getApiDomainName", Recorded.domain, a)) /\
       IF a = "found" THEN Then("apigDelete")
       ELSE IF a = "notFound" THEN Continue(removeIndex + 1)
       ELSE Fail
  /\ UNCHANGED <<op, notRemove, gwVars, cfDistributions, removes>>

\* line 113
ApigDelete ==
  /\ op = "remove"
  /\ removePc = "apigDelete"
  /\ \E a \in Removals :
       calls' = Append(calls, Call("removeApiDomain", Recorded.domain, a)) /\
       IF a = "ok"
       THEN /\ apigDomains' = apigDomains \ {Recorded.domain}
            /\ basePathMappings' = basePathMappings \ {Recorded.domain}
            /\ Then("apigDns")
       ELSE Fail /\ UNCHANGED <<apigDomains, basePathMappings>>
  /\ UNCHANGED <<op, notRemove, aliasRecords, cfDistributions, removes>>

\* lines 116-122
ApigDns ==
  /\ op = "remove"
  /\ removePc = "apigDns"
  /\ \E a \in Removals :
       calls' = Append(calls, Call("removeApiDomainDnsRecords", Recorded.domain, a)) /\
       IF a = "ok"
       THEN aliasRecords' = aliasRecords \ {Recorded.domain} /\ Continue(removeIndex + 1)
       ELSE Fail /\ UNCHANGED aliasRecords
  /\ UNCHANGED <<op, notRemove, apigDomains, basePathMappings, cfDistributions, removes>>

\* line 126
CfRemoveAlias ==
  /\ op = "remove"
  /\ removePc = "cfRemoveAlias"
  /\ \E a \in Removals :
       calls' = Append(calls, Call("removeDomainFromCloudFrontDistribution", Recorded.domain, a)) /\
       IF a = "ok"
       THEN cfDistributions' = cfDistributions \ {Recorded.domain} /\ Then("cfDns")
       ELSE Fail /\ UNCHANGED cfDistributions
  /\ UNCHANGED <<op, notRemove, gwVars, removes>>

\* lines 129-134
CfDns ==
  /\ op = "remove"
  /\ removePc = "cfDns"
  /\ \E a \in Removals :
       calls' = Append(calls, Call("removeCloudFrontDomainDnsRecords", Recorded.domain, a)) /\
       IF a = "ok"
       THEN aliasRecords' = aliasRecords \ {Recorded.domain} /\ Continue(removeIndex + 1)
       ELSE Fail /\ UNCHANGED aliasRecords
  /\ UNCHANGED <<op, notRemove, apigDomains, basePathMappings, cfDistributions, removes>>

(***************************************************************************)
(* Domain.default.  Its first call is validateInputs (line 16), outside any *)
(* try: when validateInputs throws, default rejects with that error, having *)
(* called no provider and not touched this.state.  DomainRejected holds of  *)
(* every domain, so every invocation ends there; an invocation that got     *)
(* past line 16 would go on with line 19.                                   *)
(***************************************************************************)
CallDefault ==
  /\ op = "default"
  /\ normalized = <<>>
  /\ normalized' = validateInputs(inputs)
  /\ outputs' = IF normalized'.threw THEN normalized' ELSE <<>>
  /\ UNCHANGED <<op, inputs, notNorm>>

(***************************************************************************)
(* The behaviours.                                                         *)
(***************************************************************************)
NormIdle == inputs = <<>> /\ normalized = <<>> /\ outputs = <<>>
ZoneIdle == hostedZones = <<>> /\ zoneDomain = <<>> /\ zoneResults = <<>>
CertLocalsInit(pc) ==
  /\ certPc = pc
  /\ certificateArn = 0
  /\ certificate = <<>>
  /\ validationResourceRecord = Undefined
  /\ readinessCheckCount = ReadinessChecks
  /\ statusCheckCount = StatusChecks
  /\ existingRecords = {}
  /\ certResult = <<>>
  /\ upsertWrites = 0
  /\ certRequests = 0
  /\ describeCalls = [readiness |-> 0, status |-> 0]
CertIdle == certificates = <<>> /\ zoneRecords = {} /\ CertLocalsInit("idle")
BindLocalsInit ==
  /\ bindPc = "idle"
  /\ subdomain = <<>>
  /\ createClients = Clients
  /\ mapAnswer = NoAnswer
  /\ bindError = <<>>
  /\ binds = 0
  /\ createDomainCalls = 0
  /\ dnsWrites = 0
  /\ createRes = <<>>
  /\ sentDnsRecord = <<>>
RemoveLocalsInit ==
  /\ removePc = "idle"
  /\ removeIndex = 0
  /\ calls = <<>>
  /\ removeResult = <<>>
  /\ removes = 0
GatewayEmpty == apigDomains = {} /\ basePathMappings = {} /\ aliasRecords = {}
BindIdle == BindLocalsInit
RemoveIdle == state = EmptyState /\ cfDistributions = {} /\ RemoveLocalsInit

InitNorm ==
  /\ op = "validateInputs"
  /\ inputs \in RawInputs
  /\ normalized = <<>>
  /\ outputs = <<>>
  /\ ZoneIdle /\ CertIdle /\ GatewayEmpty /\ BindIdle /\ RemoveIdle

InitZone ==
  /\ op = "getHostedZoneIdByDomain"
  /\ hostedZones \in ZoneLists
  /\ zoneDomain \in ResolveDomains
  /\ zoneResults = <<>>
  /\ NormIdle /\ CertIdle /\ GatewayEmpty /\ BindIdle /\ RemoveIdle

InitCert ==
  /\ op = "getCertificateArnByDomain"
  /\ certificates \in SeqUpTo(Certificates, MaxCerts)
  /\ zoneRecords \in SUBSET RecordNames
  /\ CertLocalsInit("list")
  /\ NormIdle /\ ZoneIdle /\ GatewayEmpty /\ BindIdle /\ RemoveIdle

\* default is invoked on a component that has deployed nothing yet
InitDefault ==
  /\ op = "default"
  /\ inputs \in RawInputs
  /\ normalized = <<>>
  /\ outputs = <<>>
  /\ ZoneIdle /\ CertIdle /\ GatewayEmpty /\ BindIdle /\ RemoveIdle

\* addDomainToApig starts on an account in which nothing is bound yet
InitBind ==
  /\ op = "addDomainToApig"
  /\ GatewayEmpty
  /\ BindLocalsInit
  /\ NormIdle /\ ZoneIdle /\ CertIdle /\ RemoveIdle

\* remove starts on any recorded state, whatever of it the providers still hold
InitRemove ==
  /\ op = "remove"
  /\ state \in PersistedStates
  /\ apigDomains \in SUBSET {ApiName}
  /\ basePathMappings = apigDomains
  /\ aliasRecords \in SUBSET {ApiName, WwwName, ExampleCom, CdnName}
  /\ cfDistributions \in SUBSET {WwwName, CdnName}
  /\ RemoveLocalsInit
  /\ NormIdle /\ ZoneIdle /\ CertIdle /\ BindIdle

Init == InitNorm \/ InitDefault \/ InitZone \/ InitCert \/ InitBind \/ InitRemove

Next ==
  \/ CallValidateInputs
  \/ CallDefault
  \/ CallGetHostedZoneId
  \/ ListCertificates
  \/ DescribeCertificate
  \/ CheckReadiness
  \/ ListRecordSets
  \/ UpsertValidationRecord
  \/ CheckStatus
  \/ AcmExposesValidationRecord
  \/ AcmIssuesCertificate
  \/ BindStart
  \/ MapAttempt
  \/ CreateDomain
  \/ DnsWrite
  \/ RemoveStart
  \/ ZoneLookup
  \/ WebsiteLookup
  \/ WebsiteDns
  \/ WebsiteBareDns
  \/ ApigLookup
  \/ ApigDelete
  \/ ApigDns
  \/ CfRemoveAlias
  \/ CfDns

Spec == Init /\ [][Next]_vars

(***************************************************************************)
(* The claims.                                                             *)
(***************************************************************************)

\* C1: whenever addDomainToApig has returned successfully, the base path
\* mapping of the subdomain and the alias record of the subdomain both
\* exist: a successful bind never leaves the subdomain half-bound.
BindNeverHalfBound ==
  (op = "addDomainToApig" /\ bindPc = "Bound")
    => (subdomain \in basePathMappings /\ subdomain \in aliasRecords)

\* C2: after a mapping attempt answered with the rate-limited error, bind
\* is waiting to retry the mapping attempt: it has neither moved on to
\* CreateDomain nor failed, and no error is surfaced.
RateLimitedMapIsRetried ==
  (op = "addDomainToApig" /\ mapAnswer = TooManyRequests)
    => (bindPc = "MapAttempt" /\ bindError = <<>>)

\* C3: whenever getCertificateArnByDomain has returned successfully, the
\* certificate whose ARN it returned has status ISSUED.
EnsuredCertificateIsIssued ==
  (op = "getCertificateArnByDomain" /\ certPc = "done" /\ ~certResult.threw)
    => certificates[certResult.value].Status = "ISSUED"

\* C4: validateInputs throws the invalid-domain error exactly when the
\* domain is not a string that splits on '.' into two labels; for a
\* two-label domain it returns the supplied region, or us-east-1 when none
\* was supplied, and one descriptor named label.domain per declared
\* subdomain.
NormalizerContract ==
  (op = "validateInputs" /\ normalized # <<>>) =>
    LET twoLabels ==
          typeof(inputs.domain) = "string" /\ Len(split(inputs.domain.v, Dot)) = 2
        supplied ==
          inputs.region.t = "string" /\ inputs.region.v # <<>>
    IN /\ normalized.threw <=> ~twoLabels
       /\ normalized.threw => normalized.message = InvalidDomain
       /\ ~normalized.threw =>
            /\ normalized.value.region =
                 (IF supplied THEN inputs.region ELSE String(UsEast1))
            /\ Len(normalized.value.subdomains) = Len(inputs.subdomains)
            /\ \A i \in 1..Len(inputs.subdomains) :
                 normalized.value.subdomains[i].name =
                   inputs.subdomains[i].part \o <<Dot>> \o inputs.domain.v

\* C5: a mapping attempt that the provider answers with "Base path already
\* exists for this domain name" ends addDomainToApig in Bound with no error,
\* no createDomainName call and no DNS write, in whichever invocation.
BoundSubdomainIsSkipped ==
  [][(op = "addDomainToApig" /\ bindPc = "MapAttempt" /\ mapAnswer' = Conflict)
       => /\ bindPc' = "Bound"
          /\ bindError' = <<>>
          /\ createDomainCalls' = createDomainCalls
          /\ dnsWrites' = dnsWrites
          /\ UNCHANGED gwVars]_vars

BoundSubdomainIsSkippedWitness ==
  /\ op = "addDomainToApig"
  /\ bindPc = "Bound"
  /\ mapAnswer = Conflict
  /\ binds = 3
  /\ subdomain \in aliasRecords

\* the removal helpers of a recorded subdomain have all answered, none with
\* an error, in the call log
RemovalCompleted(sub, log) ==
  LET answered(fn, d, a) ==
        \E k \in 1..Len(log) : log[k] = Call(fn, d, a)
  IN IF sub.type = "awsS3Website"
     THEN \/ answered("getCloudFrontDistributionByDomain", sub.domain, "notFound")
          \/ /\ answered("getCloudFrontDistributionByDomain", sub.domain, "found")
             /\ answered("removeCloudFrontDomainDnsRecords", sub.domain, "ok")
             /\ startsWith(sub.domain, Www) =>
                  answered("removeCloudFrontDomainDnsRecords",
                           replace(sub.domain, WwwDot, <<>>), "ok")
     ELSE IF sub.type = "awsApiGateway"
     THEN \/ answered("getApiDomainName", sub.domain, "notFound")
          \/ /\ answered("getApiDomainName", sub.domain, "found")
             /\ answered("removeApiDomain", sub.domain, "ok")
             /\ answered("removeApiDomainDnsRecords", sub.domain, "ok")
     ELSE IF sub.type = "awsCloudFront"
     THEN /\ answered("removeDomainFromCloudFrontDistribution", sub.domain, "ok")
          /\ answered("removeCloudFrontDomainDnsRecords", sub.domain, "ok")
     ELSE TRUE

\* C6: remove changes the persisted state only by emptying it, and only in
\* the step that ends the loop, after the zone lookup and the removal steps
\* of every recorded subdomain have answered without an error; when a helper
\* throws, remove ends with that error and the state is as it was.
TeardownClearsOnlyAfterLoop ==
  [][/\ state' # state =>
          /\ state' = EmptyState
          /\ removePc' = "done"
          /\ removeResult' = Return(<<>>)
          /\ \A k \in 1..Len(calls') : calls'[k].answer # "error"
          /\ \E k \in 1..Len(calls') :
               calls'[k] = Call("getDomainHostedZoneId", state.domain.v, "found")
          /\ \A i \in 1..Len(state.subdomains) :
               RemovalCompleted(state.subdomains[i], calls')
     /\ (removePc # "failed" /\ removePc' = "failed") =>
          /\ state' = state
          /\ removeResult'.threw]_vars

TeardownClearsOnlyAfterLoopWitness ==
  /\ op = "remove"
  /\ removes = 2
  /\ removePc = "done"
  /\ state = EmptyState
  /\ Len(calls) >= 4

\* C7: when the certificate found for the domain is described as ISSUED,
\* getCertificateArnByDomain returns its ARN at once, with no validation
\* record written and no certificate requested.
IssuedCertificateFastPath ==
  (op = "getCertificateArnByDomain" /\ certPc \notin {"list", "describe"}
     /\ certificateArn # 0 /\ certificate.Status = "ISSUED")
    => /\ certPc = "done"
       /\ certResult = Return(certificateArn)
       /\ certificateArn = FindCertificate(certificates, CertificateDomain)
       /\ upsertWrites = 0
       /\ certRequests = 0

IssuedCertificateFastPathWitness ==
  /\ op = "getCertificateArnByDomain"
  /\ certPc = "done"
  /\ certificateArn = 2
  /\ certificate.Status = "ISSUED"
  /\ ~certResult.threw
  /\ ValidationRecordName \notin zoneRecords

\* C8: the step that has listed the records of the zone goes on to write the
\* validation record exactly when no record of that name is in the zone, and
\* a validation record is written at most once, by that write alone.
ValidationRecordWrittenIffAbsent ==
  [][/\ (certPc = "listRecords" /\ certPc' # "listRecords") =>
          ((certPc' = "upsert") <=> (validationResourceRecord.v.Name \notin zoneRecords))
     /\ upsertWrites' # upsertWrites =>
          (certPc = "upsert" /\ upsertWrites = 0 /\ upsertWrites' = 1)]_vars

\* what C9 says of the results of the calls made so far
ZoneResultsRight ==
  LET matching == {i \in 1..Len(hostedZones) : includes(hostedZones[i].Name, zoneDomain)}
  IN \A k \in 1..Len(zoneResults) :
       /\ zoneResults[k].threw <=> matching = {}
       /\ zoneResults[k].threw => zoneResults[k].message = ZoneNotFound
       /\ ~zoneResults[k].threw =>
            \E i \in matching : hostedZones[i].Id = HostedZonePrefix \o zoneResults[k].value
       /\ zoneResults[k] = zoneResults[1]

\* C9: getHostedZoneIdByDomain throws the zone-not-found error exactly when
\* no listed zone's Name includes the domain; otherwise it returns the Id,
\* without its /hostedzone/ prefix, of a zone whose Name includes the domain;
\* repeated calls return the same, and the zone list is never changed.
ZoneResolverContract ==
  [][ZoneResultsRight' /\ hostedZones' = hostedZones]_vars

ZoneResolverContractWitness ==
  /\ op = "getHostedZoneIdByDomain"
  /\ Len(zoneResults) = 2
  /\ ~zoneResults[2].threw
  /\ Len(hostedZones) = 2
  /\ ~includes(hostedZones[1].Name, zoneDomain)
  /\ hostedZones[2].Name # zoneDomain \o <<Dot>>

\* C10: remove invoked on an empty persisted state returns successfully in
\* that step, having called no helper, and leaves the persisted state and
\* the providers as they were.
EmptyStateTeardownIsNoOp ==
  [][(op = "remove" /\ removes' = removes + 1 /\ StateIsEmpty(state))
       => /\ removePc' = "done"
          /\ removeResult' = Return(<<>>)
          /\ calls' = <<>>
          /\ state' = state
          /\ UNCHANGED <<gwVars, cfDistributions>>]_vars

EmptyStateTeardownIsNoOpWitness ==
  /\ op = "remove"
  /\ removes = 2
  /\ removePc = "done"
  /\ calls = <<>>
  /\ StateIsEmpty(state)
  /\ aliasRecords # {}

\* C11: in remove, for a recorded awsS3Website subdomain with a www.-prefixed
\* domain: once the removal of the records of the www domain has answered
\* without an error, the next helper remove calls is the removal of the
\* records of the bare domain (the domain with 'www.' stripped); when that
\* call answers without an error remove does not fail, whether or not the
\* zone held a record of the bare domain; and when the distribution lookup
\* answers not found, remove goes on to the next subdomain with neither
\* removal called.
WwwWebsiteAlsoRemovesBare ==
  [][(op = "remove" /\ calls' # <<>> /\ calls # <<>>) =>
       LET fn == "removeCloudFrontDomainDnsRecords"
           last == calls'[Len(calls')]
           bare == replace(Recorded.domain, WwwDot, <<>>)
       IN /\ (removePc = "websiteLookup" /\ last.answer = "notFound") =>
               /\ removePc' \notin {"websiteDns", "websiteBareDns", "failed"}
               /\ removeIndex' # removeIndex \/ removePc' = "done"
               /\ aliasRecords' = aliasRecords
          /\ removePc' = "websiteDns" =>
               last = Call("getCloudFrontDistributionByDomain", Recorded.domain, "found")
          /\ (removePc = "websiteDns" /\ startsWith(Recorded.domain, WwwDot)
                /\ last.answer = "ok") =>
               /\ last = Call(fn, Recorded.domain, "ok")
               /\ removePc' = "websiteBareDns"
               /\ removeIndex' = removeIndex
          /\ removePc' = "websiteBareDns" =>
               (removePc = "websiteDns" /\ last = Call(fn, Recorded.domain, "ok"))
          /\ removePc = "websiteBareDns" =>
               /\ Len(calls') = Len(calls) + 1
               /\ last.fn = fn
               /\ last.domain = bare
               /\ bare # Recorded.domain
               /\ last.answer = "ok" =>
                    /\ removePc' # "failed"
                    /\ aliasRecords' = aliasRecords \ {bare}]_vars

WwwWebsiteAlsoRemovesBareWitness ==
  /\ op = "remove"
  /\ removePc = "done"
  /\ ~removeResult.threw
  /\ state = EmptyState
  /\ \E k \in 2..Len(calls) :
       /\ calls[k] = Call("removeCloudFrontDomainDnsRecords", ExampleCom, "ok")
       /\ calls[k - 1] = Call("removeCloudFrontDomainDnsRecords", WwwName, "ok")

\* the domain of the inputs is a string of two labels
TwoLabelDomain ==
  typeof(inputs.domain) = "string" /\ Len(split(inputs.domain.v, Dot)) = 2

CreateDomainThenOneAlias ==
  [][op = "addDomainToApig" =>
       /\ (bindPc = "MapAttempt" /\ mapAnswer' = NotFound) =>
            /\ bindPc' = "CreateDomain"
            /\ dnsWrites' = dnsWrites
            /\ UNCHANGED gwVars
       /\ (bindPc' = "CreateDomain" /\ bindPc # "CreateDomain") =>
            (bindPc = "MapAttempt" /\ mapAnswer' = NotFound)
       /\ bindPc' = "DnsWrite" =>
            /\ bindPc = "CreateDomain"
            /\ subdomain \notin apigDomains
            /\ apigDomains' = apigDomains \cup {subdomain}
            /\ createDomainCalls' = createDomainCalls + 1
            /\ createRes' \in DomainNameResponses
            /\ dnsWrites' = dnsWrites
       /\ dnsWrites' # dnsWrites =>
            /\ bindPc = "DnsWrite"
            /\ bindPc' # "DnsWrite"
            /\ dnsWrites' = dnsWrites + 1
            /\ subdomain \in apigDomains
            /\ sentDnsRecord'.Name = subdomain
            /\ sentDnsRecord'.AliasTarget =
                 [HostedZoneId |-> createRes.distributionHostedZoneId,
                  DNSName |-> createRes.distributionDomainName]
       /\ aliasRecords' # aliasRecords =>
            /\ dnsWrites' = dnsWrites + 1
            /\ aliasRecords' = aliasRecords \cup {subdomain}
       /\ (bindPc' = "MapAttempt" /\ bindPc \in {"CreateDomain", "DnsWrite"}) =>
            /\ bindPc = "DnsWrite"
            /\ dnsWrites' = dnsWrites + 1
            /\ subdomain \in apigDomains'
            /\ subdomain \in aliasRecords'
            /\ subdomain' = subdomain]_vars

CreateDomainThenOneAliasWitness ==
  /\ op = "addDomainToApig"
  /\ bindPc = "Bound"
  /\ binds = 1
  /\ mapAnswer = Success
  /\ createDomainCalls = 1
  /\ dnsWrites = 1
  /\ subdomain \in apigDomains \cap aliasRecords \cap basePathMappings
  /\ sentDnsRecord.AliasTarget.DNSName = createRes.distributionDomainName

\* C15: whenever addDomainToApig stands at CreateDomain, be it for the first
\* call or for the retry that follows a rate-limited createDomainName, the
\* call is made with the clients of the invocation, so that it reaches API
\* Gateway again; and addDomainToApig never fails with the error of a retry
\* that could not be made.
RateLimitedCreateIsRetried ==
  op = "addDomainToApig" =>
    /\ bindPc = "CreateDomain" => createClients = Clients
    /\ bindPc = "Failed" => bindError # ThrownTypeError

\* C16: once getCertificateArnByDomain is past line 333, either a listed
\* certificate has the domain as its DomainName, the ARN in hand is that of
\* the first such certificate and no certificate was requested; or none had,
\* exactly one certificate was requested, for the domain, and the ARN in
\* hand, which is described and returned, is the one of that request.
CertificateRequestedIffNoneMatches ==
  (op = "getCertificateArnByDomain" /\ certPc # "list") =>
    /\ certRequests \in {0, 1}
    /\ certRequests = 0 =>
         /\ certificateArn # 0
         /\ certificateArn = FindCertificate(certificates, CertificateDomain)
    /\ certRequests = 1 =>
         /\ certificateArn = Len(certificates)
         /\ certificateArn = FindCertificate(certificates, CertificateDomain)
    /\ (certPc = "done" /\ ~certResult.threw) => certResult.value = certificateArn

\* the steps of getCertificateArnByDomain itself
CertificateManagerStep ==
  \/ ListCertificates
  \/ DescribeCertificate
  \/ CheckReadiness
  \/ ListRecordSets
  \/ UpsertValidationRecord
  \/ CheckStatus

\* what is left of getCertificateArnByDomain at most: the phases to come,
\* then the readiness checks left, then the status checks left
CertificateManagerRank ==
  LET phase == CASE certPc = "list" -> 6
                 [] certPc = "describe" -> 5
                 [] certPc = "checkReadiness" -> 4
                 [] certPc = "listRecords" -> 3
                 [] certPc = "upsert" -> 2
                 [] certPc = "checkStatus" -> 1
                 [] OTHER -> 0
  IN (phase * (ReadinessChecks + 1) + readinessCheckCount) * (StatusChecks + 1)
       + statusCheckCount

\* C17: validateCertificate always ends: every step of the call lowers what
\* is left of it, and until it has ended it has a step to take.  checkReadiness
\* describes the certificate at most 16 times: a describe that shows the
\* validation record of the domain ends the polling, and when 16 describes
\* showed none the call fails with the not-ready error, no record written.
\* checkStatus describes it at most 16 times: a describe that shows ISSUED
\* ends the polling with the call returning, and when 16 describes showed
\* none the call fails with the not-validated error.
ValidationPollingIsBounded ==
  [][op = "getCertificateArnByDomain" =>
       LET described(phase) == describeCalls'[phase] = describeCalls[phase] + 1
           cert == certificates[certificateArn]
       IN /\ certLocals' # certLocals =>
               /\ CertificateManagerRank' < CertificateManagerRank
               /\ CertificateManagerRank' >= 0
          /\ certPc' # "done" => (ENABLED CertificateManagerStep)'
          /\ describeCalls'.readiness <= ReadinessChecks
          /\ describeCalls'.status <= StatusChecks
          /\ describeCalls' # describeCalls =>
               \/ certPc = "checkReadiness" /\ described("readiness")
                    /\ describeCalls'.status = describeCalls.status
               \/ certPc = "checkStatus" /\ described("status")
                    /\ describeCalls'.readiness = describeCalls.readiness
          /\ (certPc = "checkReadiness" /\ certLocals' # certLocals) =>
               IF described("readiness")
               THEN IF RootValidationRecord(cert.DomainValidationOptions,
                                            CertificateDomain, Undefined).t # "undefined"
                    THEN certPc' = "listRecords"
                    ELSE certPc' = "checkReadiness"
               ELSE /\ describeCalls.readiness = ReadinessChecks
                    /\ validationResourceRecord.t = "undefined"
                    /\ certPc' = "done"
                    /\ certResult' = Throw(CertificateNotReady)
                    /\ upsertWrites' = 0
          /\ (certPc = "checkStatus" /\ certLocals' # certLocals) =>
               IF described("status")
               THEN IF cert.Status = "ISSUED"
                    THEN certPc' = "done" /\ certResult' = Return(certificateArn)
                    ELSE certPc' = "checkStatus"
               ELSE /\ describeCalls.status = StatusChecks
                    /\ certPc' = "done"
                    /\ certResult' = Throw(CertificateNotValidated)]_vars

ValidationPollingIsBoundedWitness ==
  /\ op = "getCertificateArnByDomain"
  /\ certPc = "done"
  /\ certResult = Throw(CertificateNotValidated)
  /\ describeCalls.status = StatusChecks
  /\ describeCalls.readiness \in 2..ReadinessChecks
  /\ upsertWrites = 1

GatewayTeardownInOrder ==
  [][(op = "remove" /\ calls' # <<>> /\ calls # <<>>) =>
       LET last == calls'[Len(calls')]
           before == calls[Len(calls)]
       IN /\ (removePc = "apigLookup" /\ last.answer = "notFound") =>
               /\ removePc' \notin {"apigDelete", "apigDns", "failed"}
               /\ removeIndex' # removeIndex \/ removePc' = "done"
               /\ UNCHANGED gwVars
          /\ removePc' = "apigDelete" =>
               /\ removePc = "apigLookup"
               /\ last = Call("getApiDomainName", Recorded.domain, "found")
          /\ removePc = "apigDelete" =>
               /\ last.fn = "removeApiDomain"
               /\ last.domain = Recorded.domain
               /\ before = Call("getApiDomainName", Recorded.domain, "found")
               /\ aliasRecords' = aliasRecords
               /\ removePc' = (IF last.answer = "ok" THEN "apigDns" ELSE "failed")
          /\ removePc' = "apigDns" => removePc = "apigDelete"
          /\ removePc = "apigDns" =>
               /\ last.fn = "removeApiDomainDnsRecords"
               /\ last.domain = Recorded.domain
               /\ before = Call("removeApiDomain", Recorded.domain, "ok")
               /\ Recorded.domain \notin apigDomains
          /\ last.fn \in {"removeApiDomain", "removeApiDomainDnsRecords"} =>
               removePc \in {"apigDelete", "apigDns"}]_vars

GatewayTeardownInOrderWitness ==
  /\ op = "remove"
  /\ removePc = "done"
  /\ state = EmptyState
  /\ ApiName \notin apigDomains \cup aliasRecords
  /\ \E k \in 1..(Len(calls) - 2) :
       /\ calls[k] = Call("getApiDomainName", ApiName, "found")
       /\ calls[k + 1] = Call("removeApiDomain", ApiName, "ok")
       /\ calls[k + 2] = Call("removeApiDomainDnsRecords", ApiName, "ok")

\* C20: in the step in which a remove returns successfully and empties the
\* persisted state, whatever the invocations before it did or failed to do,
\* no recorded awsApiGateway subdomain has an alias record left in the zone
\* or a custom domain left in API Gateway.
ClearedStateLeavesNoGatewayResidue ==
  [][(op = "remove" /\ ~StateIsEmpty(state) /\ state' = EmptyState) =>
       \A i \in 1..Len(state.subdomains) :
         state.subdomains[i].type = "awsApiGateway" =>
           /\ state.subdomains[i].domain \notin aliasRecords'
           /\ state.subdomains[i].domain \notin apigDomains']_vars

=============================================================================
